---- MODULE Spec2Model ----
(***************************************************************************)
(* Map-reduce condensation pipeline of content_summarizer:                 *)
(*   condenser_service.condense_content  (map stage, reduce stage)         *)
(*   utils.remove_thinking_tokens        (tag extractor)                   *)
(* Text is a sequence of characters, each character a one-element string.  *)
(***************************************************************************)
EXTENDS Integers, Sequences, FiniteSets, TLC

VARIABLES
    pc,                    \* position of condense_content
    chunks,                \* chunks = split_content(content)
    idx,                   \* 1-based loop index of the map loop
    processed_chunks,      \* processed_chunks
    chunk_response_text,   \* stream buffer of the current map call
    reduce_response_text,  \* stream buffer of the reduce call
    pending,               \* fragments the open stream has still to yield
    calls,                 \* history: every current_model.stream(...) invocation
    result,                \* the value condense_content returned
    error,                 \* the exception condense_content raised
    text,                  \* argument of a direct remove_thinking_tokens call
    ret,                   \* what that call returned
    split_pc,              \* position of split_message
    message,               \* split_message: message
    max_length,            \* split_message: max_length
    message_chunks,        \* split_message: chunks
    remaining,             \* split_message: remaining
    offsets,               \* history: where in message each chunk was cut from
    send_pc,               \* position of send_telegram_with_audio
    args,                  \* its arguments and the state of the audio file
    part_i,                \* index i of the loop over message_chunks
    sent,                  \* history: every request issued, with its outcome
    send_ret,              \* the value send_telegram_with_audio returned
    channel_message_id,    \* channel mode: message_id of the post in the channel
    discussion_message_id, \* channel mode: the forwarded message found, or None
    attempt,               \* channel mode: loop variable of the getUpdates loop
    lookups,               \* history: every getUpdates request, with its outcome
    current,               \* which of two invocations of condense_content is running
    suspended,             \* the locals of the invocation that is not running
    backup_pc,             \* position of a create_backup_file / parse_backup_file round
    url,                   \* create_backup_file: url
    content,               \* create_backup_file: content
    audio_file_path,       \* create_backup_file: audio_file_path
    backup_path,           \* the path create_backup_file returned
    file,                  \* the text of the file at that path
    record                 \* what parse_backup_file returned

split_vars == <<split_pc, message, max_length, message_chunks, remaining, offsets>>

channel_vars == <<channel_message_id, discussion_message_id, attempt, lookups>>

send_vars == <<send_pc, args, part_i, sent, send_ret, channel_vars>>

two_vars == <<current, suspended>>

backup_vars == <<backup_pc, url, content, audio_file_path, backup_path, file, record>>

vars == <<pc, chunks, idx, processed_chunks, chunk_response_text,
          reduce_response_text, pending, calls, result, error, text, ret,
          split_vars, send_vars, two_vars, backup_vars>>

pipeline_vars == <<pc, chunks, idx, processed_chunks, chunk_response_text,
                   reduce_response_text, pending, calls, result, error>>

(***************************************************************************)
(* Python str primitives                                                   *)
(***************************************************************************)
Max(S) == CHOOSE x \in S : \A y \in S : y <= x

Min2(a, b) == IF a < b THEN a ELSE b

RECURSIVE Flatten(_)
Flatten(ss) == IF ss = <<>> THEN <<>> ELSE Head(ss) \o Flatten(Tail(ss))

UpperLetters == <<"A","B","C","D","E","F","G","H","I","J","K","L","M",
                  "N","O","P","Q","R","S","T","U","V","W","X","Y","Z">>
LowerLetters == <<"a","b","c","d","e","f","g","h","i","j","k","l","m",
                  "n","o","p","q","r","s","t","u","v","w","x","y","z">>

\* U+0130 LATIN CAPITAL LETTER I WITH DOT ABOVE, the one character whose
\* str.lower() is two characters long: "i" followed by U+0307.
I_DOT == "U+0130"
DOT_ABOVE == "U+0307"

LowerOf ==
    [c \in {UpperLetters[i] : i \in DOMAIN UpperLetters} |->
        LowerLetters[CHOOSE i \in DOMAIN UpperLetters : UpperLetters[i] = c]]

\* str.lower() of one character, as a string
LowerChar(c) ==
    IF c \in DOMAIN LowerOf THEN <<LowerOf[c]>>
    ELSE IF c = I_DOT THEN <<"i", DOT_ABOVE>>
    ELSE <<c>>

\* str.lower()
lower(s) == Flatten([i \in DOMAIN s |-> LowerChar(s[i])])

\* s[a:b] for 0 <= a, 0 <= b
Slice(s, a, b) == SubSeq(s, a + 1, Min2(b, Len(s)))

\* s.rfind(sub): highest 0-based index where sub occurs in s, else -1
rfind(s, sub) ==
    LET str == s
        found == {i \in 0..(Len(str) - Len(sub)) : SubSeq(str, i + 1, i + Len(sub)) = sub}
    IN  IF found = {} THEN -1 ELSE Max(found)

Whitespace == {" ", "\n", "\t", "\r"}

\* str.strip()
strip(s) ==
    LET keep == {i \in DOMAIN s : s[i] \notin Whitespace}
    IN  IF keep = {} THEN <<>>
        ELSE SubSeq(s, CHOOSE i \in keep : \A j \in keep : i <= j, Max(keep))

(***************************************************************************)
(* utils.remove_thinking_tokens                                            *)
(***************************************************************************)
opening_tag == <<"<","f","i","n","a","l","_","s","c","r","i","p","t",">">>
closing_tag == <<"<","/","f","i","n","a","l","_","s","c","r","i","p","t",">">>

last_open_index(t) == rfind(lower(t), lower(opening_tag))
last_close_index(t) == rfind(lower(t), lower(closing_tag))

TagsFoundAnyOrder(t) ==
    /\ last_open_index(t) # -1
    /\ last_close_index(t) # -1

\* line 36
TagsFound(t) ==
    /\ last_open_index(t) # -1
    /\ last_close_index(t) # -1
    /\ last_close_index(t) > last_open_index(t)

final_content(t) ==
    LET start_pos == last_open_index(t) + Len(opening_tag)
    IN  strip(Slice(t, start_pos, last_close_index(t)))

\* an extractor that, the end marker missing, keeps what follows the begin marker
remove_thinking_tokens_best_effort(t) ==
    IF t = <<>> THEN [text |-> t, success |-> FALSE]
    ELSE IF TagsFound(t) THEN [text |-> final_content(t), success |-> TRUE]
    ELSE IF last_open_index(t) # -1
         THEN [text |-> strip(Slice(t, last_open_index(t) + Len(opening_tag), Len(t))),
               success |-> FALSE]
    ELSE [text |-> strip(t), success |-> FALSE]

\* lines 8-47
remove_thinking_tokens(t) ==
    IF t = <<>> THEN [text |-> t, success |-> FALSE]
    ELSE IF TagsFound(t) THEN [text |-> final_content(t), success |-> TRUE]
    ELSE [text |-> strip(t), success |-> FALSE]

(***************************************************************************)
(* The LLM capability: current_model.stream(prompt) yields fragments.      *)
(* A fragment is an AIMessageChunk (it has a content attribute) or a plain *)
(* str; str() of an AIMessageChunk is its repr, not its content.           *)
(***************************************************************************)
AIMessageChunk(t) == [attrs |-> {"content"}, content |-> t,
                      str |-> <<"content='">> \o t \o <<"'">>]
PlainStr(t) == [attrs |-> {}, content |-> <<>>, str |-> t]

hasattr(f, a) == a \in f.attrs

\* condense_content's test on every streamed fragment
FragmentTextStrOnly(f) == f.str
FragmentText(f) == IF hasattr(f, "content") THEN f.content ELSE f.str

\* What the model may answer to one call: the fragments of one response.
Responses ==
    { <<>>,
      << AIMessageChunk(<<"t","h","i","n","k"," ">>), AIMessageChunk(opening_tag),
         AIMessageChunk(<<" ","A","\n">>), AIMessageChunk(closing_tag) >>,
      << PlainStr(opening_tag \o <<"B">>), PlainStr(closing_tag \o <<"\n">>),
         AIMessageChunk(<<>>) >>,
      << PlainStr(<<I_DOT>>), AIMessageChunk(opening_tag \o <<"D">> \o closing_tag) >>,
      << AIMessageChunk(opening_tag \o <<"A">> \o closing_tag), PlainStr(<<" ","x"," ">>),
         AIMessageChunk(opening_tag \o <<"C">> \o closing_tag) >>,
      << AIMessageChunk(<<"A">>), PlainStr(<<"B">>) >>,
      << AIMessageChunk(opening_tag), PlainStr(<<"A">>) >>,
      << PlainStr(closing_tag), AIMessageChunk(<<"A">>), AIMessageChunk(opening_tag) >> }

(***************************************************************************)
(* Prompts.  The fixed text of a template is one opaque element; the       *)
(* placeholder is another.                                                 *)
(***************************************************************************)
yt_transcript_shortener_system_message == <<"# ROLE ... LENGTH TARGET">>
map_prompt == <<"# TASK: HIGH-DENSITY NARRATIVE MAPPING ... INPUT SEGMENT: ",
                "{chunk_text}",
                "... FINAL NARRATIVE SCRIPT: <final_script> (Start directly ...)">>
reduce_prompt == <<"# TASK: LEAD NARRATIVE EDITOR ... REFINED SEGMENTS TO STITCH: ",
                   "{combined_map_results}",
                   "... FINAL BROADCAST SCRIPT: <final_script> (Start directly ...)">>

\* template.replace(placeholder, new), the placeholder being one element
replace(template, placeholder, new) ==
    Flatten([i \in DOMAIN template |->
                IF template[i] = placeholder THEN new ELSE <<template[i]>>])

map_input(chunk) ==
    <<"System:">> \o yt_transcript_shortener_system_message \o <<"Input:">>
        \o replace(map_prompt, "{chunk_text}", chunk)

reduce_input(combined_chunks) ==
    <<"System:">> \o yt_transcript_shortener_system_message \o <<"Input:">>
        \o replace(reduce_prompt, "{combined_map_results}", combined_chunks)

separator == <<"\n","\n","-","-","-","\n","\n">>

RECURSIVE join_trailing(_, _)
\* a join that ends every part with the separator
join_trailing(sep, parts) ==
    IF parts = <<>> THEN <<>>
    ELSE parts[1] \o sep \o join_trailing(sep, Tail(parts))

RECURSIVE join(_, _)
\* line 48: sep.join(parts)
join(sep, parts) ==
    IF parts = <<>> THEN <<>>
    ELSE IF Len(parts) = 1 THEN parts[1]
    ELSE parts[1] \o sep \o join(sep, Tail(parts))

(***************************************************************************)
(* split_content: the chunk list the splitter returns                      *)
(***************************************************************************)
MaxChunks == 3

ChunkTexts == { <<"p">>, <<"q">> }

RECURSIVE SeqsUpTo(_, _)
SeqsUpTo(S, n) ==
    IF n = 0 THEN { <<>> }
    ELSE LET shorter == SeqsUpTo(S, n - 1)
         IN  shorter \cup { Append(s, x) : s \in {t \in shorter : Len(t) = n - 1}, x \in S }

ChunkLists == SeqsUpTo(ChunkTexts, MaxChunks)

(***************************************************************************)
(* condense_content                                                        *)
(***************************************************************************)
\* lines 38, 71: the messages of the two ValueErrors, as their stage and numbers
MapErrorZeroBased(i, n) ==
    [type |-> "ValueError", stage |-> "MAP", index |-> i - 1, total |-> n]
MapError(i, n) == [type |-> "ValueError", stage |-> "MAP", index |-> i, total |-> n]
ReduceError == [type |-> "ValueError", stage |-> "REDUCE", index |-> 0, total |-> 0]
UpstreamError == [type |-> "UpstreamError", stage |-> "stream", index |-> 0, total |-> 0]

Call(stage, i, prompt, script) ==
    [stage |-> stage, index |-> i, prompt |-> prompt, script |-> script,
     state |-> "open", arg |-> <<>>, success |-> <<>>]

\* the last call, with the state its stream is left in, the text handed to
\* remove_thinking_tokens and the success flag it returned
CloseCall(state, arg, success) ==
    [calls EXCEPT ![Len(calls)] =
        [@ EXCEPT !.state = state, !.arg = arg, !.success = success]]

StreamState == IF pending = <<>> THEN "drained" ELSE "open"

\* lines 37, 70: if not success
ExtractionFailedNever(r) == FALSE
ExtractionFailed(r) == ~r.success

\* split_message is not running
SplitIdle ==
    /\ split_pc = "idle"
    /\ message = <<>>
    /\ max_length = 0
    /\ message_chunks = <<>>
    /\ remaining = <<>>
    /\ offsets = <<>>

\* the locals of an invocation of condense_content that has not started
IdleFrame ==
    [pc |-> "idle", chunks |-> <<>>, idx |-> 0, processed_chunks |-> <<>>,
     chunk_response_text |-> <<>>, reduce_response_text |-> <<>>, pending |-> <<>>,
     calls |-> <<>>, result |-> <<>>, error |-> <<>>]

\* no backup file is being written or read
BackupIdle ==
    /\ backup_pc = "idle"
    /\ url = <<>>
    /\ content = <<>>
    /\ audio_file_path = <<>>
    /\ backup_path = <<>>
    /\ file = <<>>
    /\ record = <<>>

\* a single invocation of condense_content, or none
OneRun ==
    /\ current = 0
    /\ suspended = IdleFrame

\* send_telegram_with_audio is not running
NoArgs == [bot_token |-> <<>>, chat_id |-> <<>>, source_url |-> <<>>,
           channel_id |-> <<>>, audio_exists |-> FALSE, audio_readable |-> FALSE]

SendIdle ==
    /\ send_pc = "idle"
    /\ args = NoArgs
    /\ part_i = 0
    /\ sent = <<>>
    /\ send_ret = <<>>
    /\ channel_message_id = <<>>
    /\ discussion_message_id = <<>>
    /\ attempt = 0
    /\ lookups = <<>>

Init ==
    /\ BackupIdle
    /\ SendIdle
    /\ OneRun
    /\ SplitIdle
    /\ pc = "idle"
    /\ chunks = <<>>
    /\ idx = 0
    /\ processed_chunks = <<>>
    /\ chunk_response_text = <<>>
    /\ reduce_response_text = <<>>
    /\ pending = <<>>
    /\ calls = <<>>
    /\ result = <<>>
    /\ error = <<>>
    /\ text = <<>>
    /\ ret = <<>>

\* lines 6-16: split the content, enter the map loop
Start ==
    /\ pc = "idle"
    /\ \E cs \in ChunkLists : chunks' = cs
    /\ idx' = 1
    /\ processed_chunks' = <<>>
    /\ pc' = "map_loop"
    /\ UNCHANGED <<chunk_response_text, reduce_response_text, pending, calls,
                   result, error, text, ret, split_vars, send_vars, two_vars, backup_vars>>

\* line 16: enumerate(chunks, 1) has a next element
MapLoopHasNext == idx <= Len(chunks)

\* lines 16-28: build the map prompt of chunk idx and open its stream
MapCall ==
    /\ pc = "map_loop"
    /\ MapLoopHasNext
    /\ \E script \in Responses :
          /\ calls' = Append(calls, Call("map", idx, map_input(chunks[idx]), script))
          /\ pending' = script
    /\ chunk_response_text' = <<>>
    /\ pc' = "map_stream"
    /\ UNCHANGED <<chunks, idx, processed_chunks, reduce_response_text,
                   result, error, text, ret, split_vars, send_vars, two_vars, backup_vars>>

\* lines 28-33: one iteration of the loop over the stream
MapStreamChunk ==
    /\ pc = "map_stream"
    /\ pending # <<>>
    /\ chunk_response_text' = chunk_response_text \o FragmentText(Head(pending))
    /\ pending' = Tail(pending)
    /\ UNCHANGED <<pc, chunks, idx, processed_chunks, reduce_response_text, calls,
                   result, error, text, ret, split_vars, send_vars, two_vars, backup_vars>>

\* the for-loop over the stream ends when the stream is exhausted
StreamExhaustedAlways == TRUE
StreamExhausted == pending = <<>>

\* line 41
AppendProcessedFront(done, cleaned) == <<cleaned>> \o done
AppendProcessed(done, cleaned) == Append(done, cleaned)

\* a map stage that calls the model again for the chunk whose extraction failed
MapExtractRetry ==
    /\ pc = "map_stream"
    /\ StreamExhausted
    /\ LET r == remove_thinking_tokens(chunk_response_text)
       IN  /\ calls' = CloseCall(StreamState, <<chunk_response_text>>, <<r.success>>)
           /\ IF ExtractionFailed(r)
              THEN /\ pc' = "map_loop"
                   /\ UNCHANGED <<idx, processed_chunks, error>>
              ELSE /\ processed_chunks' = AppendProcessed(processed_chunks, r.text)
                   /\ idx' = idx + 1
                   /\ pc' = "map_loop"
                   /\ UNCHANGED error
    /\ UNCHANGED <<chunks, chunk_response_text, reduce_response_text, pending,
                   result, text, ret, split_vars, send_vars, two_vars, backup_vars>>

\* lines 36-42: extraction of the map response; fail fast or append
MapExtract ==
    /\ pc = "map_stream"
    /\ StreamExhausted
    /\ LET r == remove_thinking_tokens(chunk_response_text)
       IN  /\ calls' = CloseCall(StreamState, <<chunk_response_text>>, <<r.success>>)
           /\ IF ExtractionFailed(r)
              THEN /\ error' = <<MapError(idx, Len(chunks))>>
                   /\ pc' = "failed"
                   /\ UNCHANGED <<idx, processed_chunks>>
              ELSE /\ processed_chunks' = AppendProcessed(processed_chunks, r.text)
                   /\ idx' = idx + 1
                   /\ pc' = "map_loop"
                   /\ UNCHANGED error
    /\ UNCHANGED <<chunks, chunk_response_text, reduce_response_text, pending,
                   result, text, ret, split_vars, send_vars, two_vars, backup_vars>>

\* a reduce stage that returns the only draft as it is instead of calling the model
ReduceCallUnlessSingle ==
    /\ pc = "map_loop"
    /\ ~MapLoopHasNext
    /\ IF Len(processed_chunks) <= 1
       THEN /\ result' = <<join(separator, processed_chunks)>>
            /\ pc' = "done"
            /\ UNCHANGED <<calls, pending, reduce_response_text>>
       ELSE /\ \E script \in Responses :
                  /\ calls' = Append(calls, Call("reduce", 0,
                                   reduce_input(join(separator, processed_chunks)), script))
                  /\ pending' = script
            /\ reduce_response_text' = <<>>
            /\ pc' = "reduce_stream"
            /\ UNCHANGED result
    /\ UNCHANGED <<chunks, idx, processed_chunks, chunk_response_text, error, text, ret, split_vars, send_vars, two_vars, backup_vars>>

\* lines 44-61: the map loop is over; join, build the reduce prompt, open its stream
ReduceCall ==
    /\ pc = "map_loop"
    /\ ~MapLoopHasNext
    /\ LET combined_chunks == join(separator, processed_chunks)
       IN  \E script \in Responses :
              /\ calls' = Append(calls, Call("reduce", 0, reduce_input(combined_chunks), script))
              /\ pending' = script
    /\ reduce_response_text' = <<>>
    /\ pc' = "reduce_stream"
    /\ UNCHANGED <<chunks, idx, processed_chunks, chunk_response_text,
                   result, error, text, ret, split_vars, send_vars, two_vars, backup_vars>>

\* lines 61-66
ReduceStreamChunk ==
    /\ pc = "reduce_stream"
    /\ pending # <<>>
    /\ reduce_response_text' = reduce_response_text \o FragmentText(Head(pending))
    /\ pending' = Tail(pending)
    /\ UNCHANGED <<pc, chunks, idx, processed_chunks, chunk_response_text, calls,
                   result, error, text, ret, split_vars, send_vars, two_vars, backup_vars>>

\* a reduce stage that falls back on the raw response when extraction fails
ReduceExtractFallback ==
    /\ pc = "reduce_stream"
    /\ StreamExhausted
    /\ LET r == remove_thinking_tokens(reduce_response_text)
       IN  /\ calls' = CloseCall(StreamState, <<reduce_response_text>>, <<r.success>>)
           /\ result' = <<r.text>>
           /\ pc' = "done"
           /\ UNCHANGED error
    /\ UNCHANGED <<chunks, idx, processed_chunks, chunk_response_text,
                   reduce_response_text, pending, text, ret, split_vars, send_vars, two_vars, backup_vars>>

\* lines 69-77: extraction of the reduce response; raise or return
ReduceExtract ==
    /\ pc = "reduce_stream"
    /\ StreamExhausted
    /\ LET r == remove_thinking_tokens(reduce_response_text)
       IN  /\ calls' = CloseCall(StreamState, <<reduce_response_text>>, <<r.success>>)
           /\ IF ExtractionFailed(r)
              THEN /\ error' = <<ReduceError>>
                   /\ pc' = "failed"
                   /\ UNCHANGED result
              ELSE /\ result' = <<r.text>>
                   /\ pc' = "done"
                   /\ UNCHANGED error
    /\ UNCHANGED <<chunks, idx, processed_chunks, chunk_response_text,
                   reduce_response_text, pending, text, ret, split_vars, send_vars, two_vars, backup_vars>>

\* a pipeline that takes a stream error for the end of the stream
StreamRaiseSwallowed ==
    /\ pc \in {"map_stream", "reduce_stream"}
    /\ pending # <<>>
    /\ calls' = CloseCall("raised", <<>>, <<>>)
    /\ pending' = <<>>
    /\ UNCHANGED <<pc, chunks, idx, processed_chunks, chunk_response_text,
                   reduce_response_text, result, error, text, ret, split_vars, send_vars, two_vars, backup_vars>>

\* lines 28, 61: the stream raises while it is opened or consumed; nothing in
\* condense_content catches it
StreamRaise ==
    /\ pc \in {"map_stream", "reduce_stream"}
    /\ calls' = CloseCall("raised", <<>>, <<>>)
    /\ error' = <<UpstreamError>>
    /\ pc' = "failed"
    /\ UNCHANGED <<chunks, idx, processed_chunks, chunk_response_text,
                   reduce_response_text, pending, result, text, ret, split_vars, send_vars, two_vars, backup_vars>>

Next ==
    \/ Start
    \/ MapCall
    \/ MapStreamChunk
    \/ MapExtract
    \/ ReduceCall
    \/ ReduceStreamChunk
    \/ ReduceExtract
    \/ StreamRaise

Spec == Init /\ [][Next]_vars

(***************************************************************************)
(* Properties of condense_content, stated over the history of stream calls *)
(***************************************************************************)
RECURSIVE ResponseText(_)
\* the text of a whole response: every fragment's content when it has a content
\* attribute, the fragment as a string otherwise, in arrival order
ResponseText(fs) ==
    IF fs = <<>> THEN <<>>
    ELSE (IF "content" \in Head(fs).attrs THEN Head(fs).content ELSE Head(fs).str)
            \o ResponseText(Tail(fs))

\* what the extractor makes of each response the model may give
Expected == [fs \in Responses |-> remove_thinking_tokens(ResponseText(fs))]

Terminal == pc \in {"done", "failed"}

MapCalls == {i \in DOMAIN calls : calls[i].stage = "map"}
ReduceCalls == {i \in DOMAIN calls : calls[i].stage = "reduce"}

\* extraction ran on call i and reported success / failure
Extracted(i) == calls[i].arg # <<>>
ExtractionOK(i) == calls[i].success = <<TRUE>>
ExtractionKO(i) == calls[i].success = <<FALSE>>

\* C1: fail-fast. A call whose extraction failed is the last call of the run (no
\* later chunk and no reduce prompt is ever streamed), and a reduce call exists
\* only when the extraction of every one of the n chunks succeeded.
C1_FailFast ==
    /\ \A i \in DOMAIN calls : ExtractionKO(i) => i = Len(calls)
    /\ ReduceCalls # {} =>
          \A k \in 1..Len(chunks) :
             \E i \in MapCalls : calls[i].index = k /\ ExtractionOK(i)

\* chunk 1 or 2 of 3 failed extraction and the run has failed
C1_Witness ==
    /\ pc = "failed"
    /\ Len(chunks) = 3
    /\ Len(calls) = 2
    /\ ExtractionKO(2)
    /\ error = <<MapError(2, 3)>>

\* C2: no partial result. A run has returned at most one string or raised at most
\* one error, never both; a finished run has exactly one of the two; a returned
\* string is the text extracted, with success, from the reduce response.
C2_NoPartialResult ==
    /\ Len(result) + Len(error) <= 1
    /\ Terminal <=> Len(result) + Len(error) = 1
    /\ pc = "done" <=> Len(result) = 1
    /\ Len(result) = 1 =>
          /\ calls # <<>>
          /\ calls[Len(calls)].stage = "reduce"
          /\ LET r == Expected[calls[Len(calls)].script]
             IN  r.success /\ result[1] = r.text

\* a run over two chunks returned the script of the reduce response
C2_Witness ==
    /\ pc = "done"
    /\ Len(chunks) = 2
    /\ result = << <<"C">> >>

\* the reduce stage has started: the map loop is over or the reduce call is made
ReduceStarted == (pc = "map_loop" /\ ~MapLoopHasNext) \/ ReduceCalls # {}

\* C3: map order preservation. When the reduce stage starts, processed_chunks has
\* len(chunks) entries and entry i is the text extracted from the response to
\* the i-th call, whose prompt was built from chunk i.
C3_MapOrder ==
    ReduceStarted =>
       /\ Len(processed_chunks) = Len(chunks)
       /\ \A i \in 1..Len(chunks) :
             /\ calls[i].stage = "map"
             /\ calls[i].prompt = map_input(chunks[i])
             /\ processed_chunks[i] = Expected[calls[i].script].text

\* three different chunks mapped to three different texts, reduce about to start
C3_Witness ==
    /\ pc = "map_loop"
    /\ ~MapLoopHasNext
    /\ chunks = << <<"p">>, <<"q">>, <<"p">> >>
    /\ processed_chunks = << <<"A">>, <<"B">>, <<"C">> >>

\* C4: the reduce call is made exactly once in every run that completed the map
\* stage, whatever the number of chunks (none and one included), never twice;
\* a run over one chunk that returned made one map call, then one reduce call.
C4_ReduceOnce ==
    /\ Cardinality(ReduceCalls) <= 1
    /\ (Terminal /\ Len(processed_chunks) = Len(chunks)) => Cardinality(ReduceCalls) = 1
    /\ (pc = "done" /\ Len(chunks) = 1) =>
          /\ Len(calls) = 2
          /\ calls[1].stage = "map"
          /\ calls[2].stage = "reduce"

\* the splitter returned no chunk, and the run returned after its one reduce call
C4_Witness ==
    /\ pc = "done"
    /\ chunks = <<>>
    /\ Len(calls) = 1
    /\ calls[1].stage = "reduce"

\* C5: no internal retry. No two calls are for the same chunk or both for the
\* reduce prompt, so at most n + 1 calls; every call before the last one had a
\* successful extraction; a finished run makes no further call.
C5_NoRetry ==
    /\ \A i, j \in DOMAIN calls :
          (calls[i].stage = calls[j].stage /\ calls[i].index = calls[j].index) => i = j
    /\ Len(calls) <= Len(chunks) + 1
    /\ \A i \in DOMAIN calls : i < Len(calls) => ExtractionOK(i)
    /\ Terminal => ~ENABLED MapCall /\ ~ENABLED ReduceCall

\* the extraction of the second chunk's response failed and the run is over
C5_Witness ==
    /\ pc = "failed"
    /\ Len(calls) = 2
    /\ calls[2].stage = "map"
    /\ ExtractionKO(2)
    /\ Len(chunks) = 2

\* C6: strictly sequential. At most one stream is open; every call before the
\* last one has a drained stream and a successful extraction; the i-th call is
\* the call for chunk i, and the reduce call comes after all n of them.
C6_Sequential ==
    /\ Cardinality({i \in DOMAIN calls : calls[i].state = "open"}) <= 1
    /\ \A i \in DOMAIN calls :
          /\ i < Len(calls) => (calls[i].state = "drained" /\ ExtractionOK(i))
          /\ calls[i].stage = "map" => (calls[i].index = i /\ i <= Len(chunks))
          /\ calls[i].stage = "reduce" => i = Len(chunks) + 1

\* the third stream is open while the first two are drained
C6_Witness ==
    /\ pc = "map_stream"
    /\ Len(calls) = 3
    /\ calls[3].state = "open"
    /\ calls[1].state = "drained"
    /\ calls[2].state = "drained"
    /\ Len(pending) = 1

\* C7: the extractor only sees completed streams. The text handed to
\* remove_thinking_tokens for a call is the whole response of that call, every
\* fragment's text in arrival order, and the stream was drained by then.
C7_WholeResponse ==
    \A i \in DOMAIN calls :
       Extracted(i) =>
          /\ calls[i].arg[1] = ResponseText(calls[i].script)
          /\ calls[i].state = "drained"

\* a reduce response of three fragments, plain strings and message chunks mixed,
\* was handed to the extractor
C7_Witness ==
    /\ calls # <<>>
    /\ calls[Len(calls)].stage = "reduce"
    /\ Extracted(Len(calls))
    /\ Len(calls[Len(calls)].script) = 3
    /\ \E k \in 1..3 : "content" \notin calls[Len(calls)].script[k].attrs
    /\ \E k \in 1..3 : "content" \in calls[Len(calls)].script[k].attrs

\* C12: a map extraction failure on chunk k of n raises an error that names the
\* 1-based k and the total n, and differs from the error of a reduce failure.
C12_MapErrorNamesChunk ==
    (calls # <<>> /\ ExtractionKO(Len(calls))) =>
        /\ Len(error) = 1
        /\ calls[Len(calls)].stage = "map" =>
              /\ error[1].stage = "MAP"
              /\ error[1].index = Len(processed_chunks) + 1
              /\ chunks[error[1].index] = chunks[calls[Len(calls)].index]
              /\ calls[Len(calls)].prompt = map_input(chunks[error[1].index])
              /\ error[1].total = Len(chunks)
              /\ error[1] # ReduceError
        /\ calls[Len(calls)].stage = "reduce" => error[1] = ReduceError

\* the third chunk of three failed extraction
C12_Witness ==
    /\ pc = "failed"
    /\ Len(chunks) = 3
    /\ Len(processed_chunks) = 2
    /\ calls[Len(calls)].stage = "map"
    /\ ExtractionKO(Len(calls))
    /\ error = <<MapError(3, 3)>>

\* C13: an error of the LLM stream is fatal. The call whose stream raised is the
\* last call, the run has failed with that error, nothing is returned and no
\* further call can be made.
C13_StreamErrorFatal ==
    \A i \in DOMAIN calls :
       calls[i].state = "raised" =>
          /\ i = Len(calls)
          /\ pc = "failed"
          /\ error = <<UpstreamError>>
          /\ result = <<>>
          /\ calls[i].arg = <<>>
          /\ ~ENABLED MapCall
          /\ ~ENABLED ReduceCall

\* the stream of the second chunk of three raised after some fragments
C13_Witness ==
    /\ Len(chunks) = 3
    /\ Len(calls) = 2
    /\ calls[2].state = "raised"
    /\ chunk_response_text # <<>>
    /\ pending # <<>>

RECURSIVE Joined(_)
\* the drafts in order, one separator between two neighbours
Joined(parts) ==
    IF Len(parts) = 0 THEN <<>>
    ELSE IF Len(parts) = 1 THEN parts[1]
    ELSE Joined(SubSeq(parts, 1, Len(parts) - 1))
            \o <<"\n","\n","-","-","-","\n","\n">> \o parts[Len(parts)]

\* C14: the reduce prompt holds, in the place of {combined_map_results}, the
\* processed map outputs in chunk order joined by the separator; the k-th map
\* prompt holds chunk k in the place of {chunk_text}.
C14_PromptSubstitution ==
    \A i \in DOMAIN calls :
       /\ SubSeq(calls[i].prompt, 1, 3) =
             <<"System:">> \o yt_transcript_shortener_system_message \o <<"Input:">>
       /\ calls[i].stage = "map" =>
             /\ calls[i].prompt[4] = map_prompt[1]
             /\ calls[i].prompt[Len(calls[i].prompt)] = map_prompt[3]
             /\ SubSeq(calls[i].prompt, 5, Len(calls[i].prompt) - 1) = chunks[i]
       /\ calls[i].stage = "reduce" =>
             /\ calls[i].prompt[4] = reduce_prompt[1]
             /\ calls[i].prompt[Len(calls[i].prompt)] = reduce_prompt[3]
             /\ SubSeq(calls[i].prompt, 5, Len(calls[i].prompt) - 1) =
                   Joined(processed_chunks)

\* the reduce prompt of a run over three chunks with three different drafts
C14_Witness ==
    /\ Len(calls) = 4
    /\ calls[4].stage = "reduce"
    /\ processed_chunks = << <<"B">>, <<"C">>, <<"A">> >>

(***************************************************************************)
(* remove_thinking_tokens called directly on a text                        *)
(***************************************************************************)
MaxPieces == 4

Pieces ==
    { opening_tag, closing_tag,
      <<"<","F","I","N","A","L","_","S","C","R","I","P","T",">">>,
      <<"<","/","F","i","n","a","l","_","S","c","r","i","p","t",">">>,
      <<"<","f",I_DOT,"n","a","l","_","s","c","r","i","p","t",">">>,
      <<"A">>, <<" ">>, <<I_DOT>> }

Texts == { Flatten(ps) : ps \in SeqsUpTo(Pieces, MaxPieces) }

InitExtract ==
    /\ BackupIdle
    /\ SendIdle
    /\ OneRun
    /\ SplitIdle
    /\ pc = "idle"
    /\ chunks = <<>>
    /\ idx = 0
    /\ processed_chunks = <<>>
    /\ chunk_response_text = <<>>
    /\ reduce_response_text = <<>>
    /\ pending = <<>>
    /\ calls = <<>>
    /\ result = <<>>
    /\ error = <<>>
    /\ text \in Texts
    /\ ret = <<>>

CallRemoveThinkingTokens ==
    /\ ret = <<>>
    /\ ret' = <<remove_thinking_tokens(text)>>
    /\ UNCHANGED <<pipeline_vars, text, split_vars, send_vars, two_vars, backup_vars>>

NextExtract == CallRemoveThinkingTokens

SpecExtract == InitExtract /\ [][NextExtract]_vars

(***************************************************************************)
(* Properties of remove_thinking_tokens, stated on the text itself         *)
(***************************************************************************)
\* marker occurs in t at 0-based position i, letter case ignored
MarkerAt(t, i, marker) ==
    \A k \in 1..Len(marker) : LowerChar(t[i + k]) = LowerChar(marker[k])

Occurrences(t, marker) ==
    {i \in 0..(Len(t) - Len(marker)) : MarkerAt(t, i, marker)}

\* both markers occur and the last end marker starts after the last begin marker
WellTagged(t) ==
    /\ Occurrences(t, opening_tag) # {}
    /\ Occurrences(t, closing_tag) # {}
    /\ Max(Occurrences(t, closing_tag)) > Max(Occurrences(t, opening_tag))

\* the text strictly between the last begin marker and the last end marker
Between(t) ==
    SubSeq(t, Max(Occurrences(t, opening_tag)) + Len(opening_tag) + 1,
              Max(Occurrences(t, closing_tag)))

\* C8: remove_thinking_tokens reports success exactly when the text holds both
\* markers, in any letter case, and the last end marker starts strictly after the
\* last begin marker; the empty text is a failure.
C8_SuccessIff ==
    ret # <<>> => (ret[1].success <=> WellTagged(text))

\* success on a text whose markers are in upper case and that holds U+0130
C8_Witness ==
    /\ ret # <<>>
    /\ ret[1].success
    /\ \E i \in DOMAIN text : text[i] = I_DOT
    /\ \E i \in DOMAIN text : text[i] = "F"
    /\ Cardinality(Occurrences(text, opening_tag)) = 2

\* C9: last-occurrence rule. On success the returned text is the trimmed text
\* strictly between the end of the last begin marker and the start of the last
\* end marker.
C9_LastOccurrence ==
    (ret # <<>> /\ ret[1].success) => ret[1].text = strip(Between(text))

\* t is the begin marker, a text S holding neither marker, the end marker
Wrapped(t) ==
    /\ Len(t) >= Len(opening_tag) + Len(closing_tag)
    /\ SubSeq(t, 1, Len(opening_tag)) = opening_tag
    /\ SubSeq(t, Len(t) - Len(closing_tag) + 1, Len(t)) = closing_tag
    /\ LET S == SubSeq(t, Len(opening_tag) + 1, Len(t) - Len(closing_tag))
       IN  Occurrences(S, opening_tag) = {} /\ Occurrences(S, closing_tag) = {}

\* C10: round trip. For S holding neither marker,
\* remove_thinking_tokens(begin + S + end) = (S.strip(), True).
C10_RoundTrip ==
    (ret # <<>> /\ Wrapped(text)) =>
        ret[1] = [text |-> strip(SubSeq(text, Len(opening_tag) + 1,
                                        Len(text) - Len(closing_tag))),
                  success |-> TRUE]

\* C11: failure value. When a marker is missing or the last end marker is not
\* after the last begin marker, remove_thinking_tokens returns the trimmed
\* original text and success = false.
C11_FailureValue ==
    (ret # <<>> /\ ~WellTagged(text)) =>
        ret[1] = [text |-> strip(text), success |-> FALSE]

\* a failure on a text with a begin marker, no end marker and blanks around
C11_Witness ==
    /\ ret # <<>>
    /\ ~ret[1].success
    /\ Occurrences(text, opening_tag) # {}
    /\ Occurrences(text, closing_tag) = {}
    /\ text[1] = " "
    /\ Len(ret[1].text) = Len(text) - 1

(***************************************************************************)
(* telegram_sender.split_message                                           *)
(***************************************************************************)
TELEGRAM_MAX_MESSAGE_LENGTH == 4096

Max2(a, b) == IF a > b THEN a ELSE b

\* str.lstrip()
lstrip(s) ==
    LET keep == {i \in DOMAIN s : s[i] \notin Whitespace}
    IN  IF keep = {} THEN <<>>
        ELSE SubSeq(s, CHOOSE i \in keep : \A j \in keep : i <= j, Len(s))

\* line 69: chunk = remaining[:max_length]
chunk_of_one_more(rem, n) == Slice(rem, 0, n + 1)
chunk_of(rem, n) == Slice(rem, 0, n)

\* lines 72-76 on a chunk that knows no newline
split_pos_space_only(chunk) == rfind(chunk, <<" ">>)

\* lines 72-76: the last space or newline of the chunk, -1 when it has none
split_pos(chunk) == Max2(rfind(chunk, <<" ">>), rfind(chunk, <<"\n">>))

\* a test that also takes a space or newline at index 0 for a place to cut
at_word_boundary_from_zero(chunk) == split_pos(chunk) >= 0

\* line 78
at_word_boundary(chunk) == split_pos(chunk) > 0

\* lines 80, 84: the chunk one iteration appends
appended(rem, n) ==
    IF at_word_boundary(chunk_of(rem, n))
    THEN Slice(chunk_of(rem, n), 0, split_pos(chunk_of(rem, n)))
    ELSE chunk_of(rem, n)

\* a forced cut that leaves out the character after the chunk
remaining_after_skip(rem, n) ==
    IF at_word_boundary(chunk_of(rem, n))
    THEN lstrip(Slice(rem, split_pos(chunk_of(rem, n)), Len(rem)))
    ELSE Slice(rem, n + 1, Len(rem))

\* lines 81, 85: what one iteration leaves to be sent
remaining_after(rem, n) ==
    IF at_word_boundary(chunk_of(rem, n))
    THEN lstrip(Slice(rem, split_pos(chunk_of(rem, n)), Len(rem)))
    ELSE Slice(rem, n, Len(rem))

RECURSIVE split_loop(_, _)
\* lines 62-85: the while loop, from the remaining text to the chunks it appends
split_loop(rem, n) ==
    IF rem = <<>> THEN <<>>
    ELSE IF Len(rem) <= n THEN <<rem>>
    ELSE <<appended(rem, n)>> \o split_loop(remaining_after(rem, n), n)

\* lines 44-87
split_message(m, n) == IF Len(m) <= n THEN <<m>> ELSE split_loop(m, n)

MaxMessageLen == 5
MaxLength == 3

MessageChars == {"a", "b", " ", "\n", "\t"}

Messages == SeqsUpTo({<<c>> : c \in MessageChars}, MaxMessageLen)

InitSplit ==
    /\ BackupIdle
    /\ SendIdle
    /\ OneRun
    /\ pc = "idle"
    /\ chunks = <<>>
    /\ idx = 0
    /\ processed_chunks = <<>>
    /\ chunk_response_text = <<>>
    /\ reduce_response_text = <<>>
    /\ pending = <<>>
    /\ calls = <<>>
    /\ result = <<>>
    /\ error = <<>>
    /\ text = <<>>
    /\ ret = <<>>
    /\ split_pc = "called"
    /\ message \in {Flatten(m) : m \in Messages}
    /\ max_length \in 1..MaxLength
    /\ message_chunks = <<>>
    /\ remaining = <<>>
    /\ offsets = <<>>

split_unchanged == <<pipeline_vars, text, ret, message, max_length, send_vars, two_vars, backup_vars>>

\* where the text still to be sent starts in the message
Offset == Len(message) - Len(remaining)

\* lines 56-57: the message fits in one chunk
SplitReturnWhole ==
    /\ split_pc = "called"
    /\ Len(message) <= max_length
    /\ message_chunks' = <<message>>
    /\ offsets' = <<0>>
    /\ split_pc' = "returned"
    /\ UNCHANGED <<split_unchanged, remaining>>

\* lines 59-60
SplitEnterLoop ==
    /\ split_pc = "called"
    /\ Len(message) > max_length
    /\ message_chunks' = <<>>
    /\ remaining' = message
    /\ offsets' = <<>>
    /\ split_pc' = "loop"
    /\ UNCHANGED split_unchanged

\* lines 64-66: the rest fits in one chunk
SplitLast ==
    /\ split_pc = "loop"
    /\ remaining # <<>>
    /\ Len(remaining) <= max_length
    /\ message_chunks' = Append(message_chunks, remaining)
    /\ offsets' = Append(offsets, Offset)
    /\ split_pc' = "returned"
    /\ UNCHANGED <<split_unchanged, remaining>>

\* lines 68-81: cut at the last space or newline of the chunk
SplitAtBoundary ==
    /\ split_pc = "loop"
    /\ remaining # <<>>
    /\ Len(remaining) > max_length
    /\ at_word_boundary(chunk_of(remaining, max_length))
    /\ message_chunks' = Append(message_chunks, appended(remaining, max_length))
    /\ offsets' = Append(offsets, Offset)
    /\ remaining' = remaining_after(remaining, max_length)
    /\ UNCHANGED <<split_unchanged, split_pc>>

\* lines 68-76, 82-85: no space or newline to cut at, cut at max_length
SplitForced ==
    /\ split_pc = "loop"
    /\ remaining # <<>>
    /\ Len(remaining) > max_length
    /\ ~at_word_boundary(chunk_of(remaining, max_length))
    /\ message_chunks' = Append(message_chunks, appended(remaining, max_length))
    /\ offsets' = Append(offsets, Offset)
    /\ remaining' = remaining_after(remaining, max_length)
    /\ UNCHANGED <<split_unchanged, split_pc>>

\* lines 62, 87: nothing remains
SplitLoopEnd ==
    /\ split_pc = "loop"
    /\ remaining = <<>>
    /\ split_pc' = "returned"
    /\ UNCHANGED <<split_unchanged, message_chunks, remaining, offsets>>

NextSplit ==
    \/ SplitReturnWhole
    \/ SplitEnterLoop
    \/ SplitLast
    \/ SplitAtBoundary
    \/ SplitForced
    \/ SplitLoopEnd

SpecSplit == InitSplit /\ [][NextSplit]_vars

\* a call of split_message that is not stopped from outside runs on
SpecSplitFair == SpecSplit /\ WF_vars(NextSplit)

(***************************************************************************)
(* Properties of split_message                                             *)
(***************************************************************************)
\* chunk i as it stands in the message
InMessage(i) == SubSeq(message, offsets[i] + 1, offsets[i] + Len(message_chunks[i]))

\* C18: every chunk is at most max_length long, and the chunks are pieces of the
\* message taken from left to right: chunk i stands in the message at a position
\* after the end of chunk i - 1.
C18_LengthAndOrder ==
    /\ Len(offsets) = Len(message_chunks)
    /\ \A i \in DOMAIN message_chunks :
          /\ Len(message_chunks[i]) <= max_length
          /\ InMessage(i) = message_chunks[i]
          /\ i > 1 => offsets[i - 1] + Len(message_chunks[i - 1]) <= offsets[i]
    /\ split_pc = "returned" => message_chunks = split_message(message, max_length)

\* three chunks returned, cut at a boundary and by force
C18_Witness ==
    /\ split_pc = "returned"
    /\ Len(message_chunks) = 3
    /\ max_length = 2
    /\ Len(message_chunks[1]) = 1
    /\ Len(message_chunks[2]) = 2

IsBlank(c) == c \in {" ", "\n", "\t"}

\* the text that was still to be sent when chunk i was cut
ToSend(i) == SubSeq(message, offsets[i] + 1, Len(message))

\* the cut after chunk i falls inside a word of the message
CutsWord(i) ==
    LET e == offsets[i] + Len(message_chunks[i])
    IN  /\ e >= 1
        /\ e < Len(message)
        /\ ~IsBlank(message[e])
        /\ ~IsBlank(message[e + 1])

\* the first max_length characters of t hold a space or newline after position 0
HasBreak(t) ==
    \E k \in 2..Min2(max_length, Len(t)) : t[k] \in {" ", "\n"}

\* C19: words are not broken. A chunk that has a successor ends inside a word
\* only when the first max_length characters of the text still to be sent hold
\* no space or newline after position 0; otherwise it ends immediately before a
\* space or newline of the message.
C19_NoBrokenWords ==
    \A i \in DOMAIN message_chunks :
       i < Len(message_chunks) =>
          IF HasBreak(ToSend(i))
          THEN /\ ~CutsWord(i)
               /\ message[offsets[i] + Len(message_chunks[i]) + 1] \in {" ", "\n"}
          ELSE Len(message_chunks[i]) = max_length

\* a message of two words cut between the words, the second word cut by force
C19_Witness ==
    /\ split_pc = "returned"
    /\ message = <<"a", "b", " ", "a", "b">>
    /\ max_length = 3
    /\ message_chunks = << <<"a", "b">>, <<"a", "b">> >>

\* the lengths k of the non-empty prefixes of t that are at most max_length long
\* and are immediately followed by a space or newline
BoundaryPrefixes(t) ==
    {k \in 1..Min2(max_length, Len(t) - 1) : t[k + 1] \in {" ", "\n"}}

\* C22: every chunk that has a successor is the longest prefix of the text still
\* to be sent that is at most max_length long and is immediately followed by a
\* space or newline, whenever the text has such a prefix: no chunk could take
\* the following word as well.
C22_LongestPrefix ==
    split_pc = "returned" =>
       \A i \in 1..(Len(message_chunks) - 1) :
          BoundaryPrefixes(ToSend(i)) # {} =>
             Len(message_chunks[i]) = Max(BoundaryPrefixes(ToSend(i)))

\* the characters of s that are not whitespace, in order
NonBlank(s) == SelectSeq(s, LAMBDA c : ~IsBlank(c))

\* where chunk i ends in the message
EndOf(i) == offsets[i] + Len(message_chunks[i])

\* the characters of the message that stand in no chunk: those between two
\* neighbouring chunks, before the first and after the last
Removed ==
    {k \in DOMAIN message :
        \A i \in DOMAIN message_chunks : k <= offsets[i] \/ k > EndOf(i)}

\* C23: no content is lost. The non-whitespace characters of the returned chunks
\* put together in order are those of the message; every chunk stands in the
\* message, and a character of the message that stands in no chunk is
\* one of the whitespace characters that follow the cut at the end of a chunk;
\* a message no longer than max_length comes back as the one chunk.
C23_NoContentLost ==
    split_pc = "returned" =>
       /\ NonBlank(Flatten(message_chunks)) = NonBlank(message)
       /\ \A i \in DOMAIN message_chunks : InMessage(i) = message_chunks[i]
       /\ \A k \in Removed :
             /\ IsBlank(message[k])
             /\ \E i \in DOMAIN message_chunks :
                   EndOf(i) < k /\ (EndOf(i) + 1)..k \subseteq Removed
       /\ Len(message) <= max_length => message_chunks = <<message>>

\* two chunks, the first cut by force, the second at a space that is removed
\* together with the tab after it
C23_Witness ==
    /\ split_pc = "returned"
    /\ max_length = 2
    /\ message = <<"a", "b", "a", " ", "\t">>
    /\ message_chunks = << <<"a", "b">>, <<"a">> >>
    /\ Removed = {4, 5}

\* an iteration of the while loop after which the loop goes on
LoopGoesOn == split_pc = "loop" /\ split_pc' = "loop"

\* C24: split_message terminates. Every iteration after which the loop goes on
\* leaves a strictly shorter remaining text and appends one chunk, the loop
\* appends at most len(message) chunks, no chunk of a non-empty message is
\* empty, and every call returns.
C24_Terminates ==
    /\ [][LoopGoesOn => /\ Len(remaining') < Len(remaining)
                        /\ Len(message_chunks') = Len(message_chunks) + 1]_vars
    /\ [](Len(message) > max_length => Len(message_chunks) <= Len(message))
    /\ [](message # <<>> => \A i \in DOMAIN message_chunks : message_chunks[i] # <<>>)
    /\ <>(split_pc = "returned")

\* a message that took as many iterations as it has characters
C24_Witness ==
    /\ split_pc = "returned"
    /\ max_length = 1
    /\ Len(message) = 5
    /\ Len(message_chunks) = 5

(***************************************************************************)
(* telegram_sender.send_telegram_with_audio, direct chat mode              *)
(***************************************************************************)
Repeat(c, n) == [i \in 1..n |-> c]

\* messages of one, two and three parts, and the empty message
SendMessages ==
    { <<>>,
      <<"h", "i">>,
      Repeat("a", 4000) \o <<" ">> \o Repeat("b", 200),
      Repeat("a", 4096) \o Repeat("b", 4096) \o <<"c">> }

SendArgs ==
    [bot_token : {<<>>, <<"t","o","k">>},
     chat_id : {<<>>, <<"4","2">>},
     source_url : {<<>>, <<"h","t","t","p">>},
     channel_id : {<<>>, <<"c","h">>},
     audio_exists : BOOLEAN,
     audio_readable : BOOLEAN]

InitSend ==
    /\ BackupIdle
    /\ pc = "idle"
    /\ chunks = <<>>
    /\ idx = 0
    /\ processed_chunks = <<>>
    /\ chunk_response_text = <<>>
    /\ reduce_response_text = <<>>
    /\ pending = <<>>
    /\ calls = <<>>
    /\ result = <<>>
    /\ error = <<>>
    /\ text = <<>>
    /\ ret = <<>>
    /\ split_pc = "idle"
    /\ max_length = 0
    /\ remaining = <<>>
    /\ offsets = <<>>
    /\ message \in SendMessages
    /\ message_chunks = <<>>
    /\ OneRun
    /\ send_pc = "called"
    /\ args \in {a \in SendArgs : a.audio_readable => a.audio_exists}
    /\ part_i = 0
    /\ sent = <<>>
    /\ send_ret = <<>>
    /\ channel_message_id = <<>>
    /\ discussion_message_id = <<>>
    /\ attempt = 0
    /\ lookups = <<>>

send_unchanged ==
    <<pipeline_vars, text, ret, split_pc, max_length, remaining, offsets, message, args,
      two_vars, backup_vars>>

\* what a request can come to: a response that is ok, one that is not, an exception
Outcomes == {"ok", "not_ok", "raised"}

\* lines 277, 292, 316: if not response.ok: return False; an exception is caught
\* at lines 333-339, which return False as well
ProceedsUnlessRaised(outcome) == outcome # "raised"
Proceeds(outcome) == outcome = "ok"

\* lines 272-275, 311-314: requests.post(text_url, data={chat_id, text})
sendMessage(chat, txt, outcome) ==
    [method |-> "sendMessage", chat_id |-> chat, text |-> txt, reply_to |-> <<>>,
     outcome |-> outcome]

\* line 290: requests.post(audio_url, data={chat_id}, files=files)
sendAudio(chat, outcome) ==
    [method |-> "sendAudio", chat_id |-> chat, text |-> <<>>, reply_to |-> <<>>,
     outcome |-> outcome]

\* lines 162, 274
SourceText(source_url) == <<"Source: ">> \o source_url

\* lines 126-141
ValidArgs == args.bot_token # <<>> /\ args.chat_id # <<>> /\ args.audio_exists

\* lines 129-141: a missing token, chat id or audio file
SendRejectArgs ==
    /\ send_pc = "called"
    /\ ~ValidArgs
    /\ send_ret' = <<FALSE>>
    /\ send_pc' = "returned"
    /\ UNCHANGED <<send_unchanged, channel_vars, message_chunks, part_i, sent>>

\* lines 143-151, 265-267: no channel_id
SendEnterDirect ==
    /\ send_pc = "called"
    /\ ValidArgs
    /\ args.channel_id = <<>>
    /\ send_pc' = "url"
    /\ UNCHANGED <<send_unchanged, channel_vars, message_chunks, part_i, sent, send_ret>>

\* line 270: no source_url
DirectSkipUrl ==
    /\ send_pc = "url"
    /\ args.source_url = <<>>
    /\ send_pc' = "audio"
    /\ UNCHANGED <<send_unchanged, channel_vars, message_chunks, part_i, sent, send_ret>>

\* lines 270-281
DirectSendUrl ==
    /\ send_pc = "url"
    /\ args.source_url # <<>>
    /\ \E outcome \in Outcomes :
          /\ sent' = Append(sent, sendMessage(args.chat_id, SourceText(args.source_url), outcome))
          /\ IF Proceeds(outcome)
             THEN send_pc' = "audio" /\ UNCHANGED send_ret
             ELSE send_pc' = "returned" /\ send_ret' = <<FALSE>>
    /\ UNCHANGED <<send_unchanged, channel_vars, message_chunks, part_i>>

\* lines 286, 337-339: open() raises
DirectOpenAudioRaises ==
    /\ send_pc = "audio"
    /\ ~args.audio_readable
    /\ send_ret' = <<FALSE>>
    /\ send_pc' = "returned"
    /\ UNCHANGED <<send_unchanged, channel_vars, message_chunks, part_i, sent>>

\* lines 286-299: the audio upload, then the message is split
DirectSendAudio ==
    /\ send_pc = "audio"
    /\ args.audio_readable
    /\ \E outcome \in Outcomes :
          /\ sent' = Append(sent, sendAudio(args.chat_id, outcome))
          /\ IF Proceeds(outcome)
             THEN /\ message_chunks' = split_message(message, TELEGRAM_MAX_MESSAGE_LENGTH)
                  /\ part_i' = 1
                  /\ send_pc' = "text"
                  /\ UNCHANGED send_ret
             ELSE /\ send_pc' = "returned"
                  /\ send_ret' = <<FALSE>>
                  /\ UNCHANGED <<message_chunks, part_i>>
    /\ UNCHANGED <<send_unchanged, channel_vars>>

\* lines 309-318: one iteration of the loop over message_chunks
DirectSendPart ==
    /\ send_pc = "text"
    /\ part_i <= Len(message_chunks)
    /\ \E outcome \in Outcomes :
          /\ sent' = Append(sent, sendMessage(args.chat_id, message_chunks[part_i], outcome))
          /\ IF Proceeds(outcome)
             THEN part_i' = part_i + 1 /\ UNCHANGED <<send_pc, send_ret>>
             ELSE send_pc' = "returned" /\ send_ret' = <<FALSE>> /\ UNCHANGED part_i
    /\ UNCHANGED <<send_unchanged, channel_vars, message_chunks>>

\* lines 320-331
DirectReturnTrue ==
    /\ send_pc = "text"
    /\ part_i > Len(message_chunks)
    /\ send_ret' = <<TRUE>>
    /\ send_pc' = "returned"
    /\ UNCHANGED <<send_unchanged, channel_vars, message_chunks, part_i, sent>>

(***************************************************************************)
(* send_telegram_with_audio, channel mode (lines 151-263)                  *)
(***************************************************************************)
max_attempts == 3

\* message ids that the post in the channel may be given
ChannelMessageIds == {5, 6}

\* a message of an update: the chat it is in, the channel post it forwards (or
\* none), and its own id
Msg(chat, fwd, id) == [chat_id |-> chat, forward_from_message_id |-> fwd, message_id |-> id]

\* results of getUpdates: nothing, a message of another chat forwarding the post,
\* a message of the group forwarding another post, one forward of post 5 in the
\* group followed by an unrelated message, two forwards of post 5 in the group
UpdateLists ==
    { <<>>,
      << Msg(<<"9","9">>, <<5>>, 7) >>,
      << Msg(<<"4","2">>, <<4>>, 7) >>,
      << Msg(<<"4","2">>, <<5>>, 7), Msg(<<"4","2">>, <<>>, 8) >>,
      << Msg(<<"4","2">>, <<5>>, 7), Msg(<<"4","2">>, <<5>>, 8) >> }

\* lines 199-200: the message is in the discussion group and forwards the post
IsForward(msg, chat, post) ==
    msg.chat_id = chat /\ msg.forward_from_message_id = post

\* lines 192-205: the first message, from the end of the updates, that is the
\* forward of the post; None when there is none
find_forward(updates, chat, post) ==
    LET hits == {i \in DOMAIN updates : IsForward(updates[i], chat, post)}
    IN  IF hits = {} THEN <<>> ELSE << updates[Max(hits)].message_id >>

\* lines 207, 214, 224, 252: the truth value of discussion_message_id
Truthy(id) == id # <<>> /\ id[1] # 0

\* line 186: requests.get raises (the timeout of 10 seconds among others);
\* nothing inside the loop catches it
GetUpdatesRaises(outcome) == outcome = "raised"

\* lines 225, 253: data['reply_to_message_id'] = discussion_message_id
Reply(request, id) == IF Truthy(id) THEN [request EXCEPT !.reply_to = id] ELSE request

GetUpdates(n, outcome, updates) == [attempt |-> n, outcome |-> outcome, updates |-> updates]

\* lines 151-157: channel mode needs the source URL
ChannelRejectNoUrl ==
    /\ send_pc = "called"
    /\ ValidArgs
    /\ args.channel_id # <<>>
    /\ args.source_url = <<>>
    /\ send_ret' = <<FALSE>>
    /\ send_pc' = "returned"
    /\ UNCHANGED <<send_unchanged, channel_vars, message_chunks, part_i, sent>>

SendEnterChannel ==
    /\ send_pc = "called"
    /\ ValidArgs
    /\ args.channel_id # <<>>
    /\ args.source_url # <<>>
    /\ send_pc' = "channel_url"
    /\ UNCHANGED <<send_unchanged, channel_vars, message_chunks, part_i, sent, send_ret>>

\* lines 159-182: post the source URL to the channel, keep the id of the post
ChannelSendUrl ==
    /\ send_pc = "channel_url"
    /\ \E outcome \in Outcomes :
          /\ sent' = Append(sent, sendMessage(args.channel_id, SourceText(args.source_url), outcome))
          /\ IF Proceeds(outcome)
             THEN /\ \E id \in ChannelMessageIds : channel_message_id' = <<id>>
                  /\ discussion_message_id' = <<>>
                  /\ attempt' = 1
                  /\ send_pc' = "lookup"
                  /\ UNCHANGED send_ret
             ELSE /\ send_pc' = "returned"
                  /\ send_ret' = <<FALSE>>
                  /\ UNCHANGED <<channel_message_id, discussion_message_id, attempt>>
    /\ UNCHANGED <<send_unchanged, message_chunks, part_i, lookups>>

\* lines 184-212: one iteration of the loop over the attempts
ChannelLookup ==
    /\ send_pc = "lookup"
    /\ attempt <= max_attempts
    /\ \E outcome \in Outcomes :
       \E updates \in (IF outcome = "ok" THEN UpdateLists ELSE { <<>> }) :
          /\ lookups' = Append(lookups, GetUpdates(attempt, outcome, updates))
          /\ IF GetUpdatesRaises(outcome)
             THEN /\ send_pc' = "returned"
                  /\ send_ret' = <<FALSE>>
                  /\ UNCHANGED <<discussion_message_id, attempt>>
             ELSE LET found == IF outcome = "ok"
                               THEN find_forward(updates, args.chat_id, channel_message_id)
                               ELSE discussion_message_id
                  IN  /\ discussion_message_id' = found
                      /\ IF Truthy(found)
                         THEN send_pc' = "channel_audio" /\ UNCHANGED attempt
                         ELSE attempt' = attempt + 1 /\ UNCHANGED send_pc
                      /\ UNCHANGED send_ret
    /\ UNCHANGED <<send_unchanged, message_chunks, part_i, sent, channel_message_id>>

\* lines 184, 214-216: the attempts are used up
ChannelLookupGiveUp ==
    /\ send_pc = "lookup"
    /\ attempt > max_attempts
    /\ send_pc' = "channel_audio"
    /\ UNCHANGED <<send_unchanged, channel_vars, message_chunks, part_i, sent, send_ret>>

\* lines 221, 337-339: open() raises
ChannelOpenAudioRaises ==
    /\ send_pc = "channel_audio"
    /\ ~args.audio_readable
    /\ send_ret' = <<FALSE>>
    /\ send_pc' = "returned"
    /\ UNCHANGED <<send_unchanged, channel_vars, message_chunks, part_i, sent>>

\* lines 221-237: the audio upload to the discussion group, then the message is split
ChannelSendAudio ==
    /\ send_pc = "channel_audio"
    /\ args.audio_readable
    /\ \E outcome \in Outcomes :
          /\ sent' = Append(sent, Reply(sendAudio(args.chat_id, outcome), discussion_message_id))
          /\ IF Proceeds(outcome)
             THEN /\ message_chunks' = split_message(message, TELEGRAM_MAX_MESSAGE_LENGTH)
                  /\ part_i' = 1
                  /\ send_pc' = "channel_text"
                  /\ UNCHANGED send_ret
             ELSE /\ send_pc' = "returned"
                  /\ send_ret' = <<FALSE>>
                  /\ UNCHANGED <<message_chunks, part_i>>
    /\ UNCHANGED <<send_unchanged, channel_vars>>

\* lines 246-261: one iteration of the loop over message_chunks
ChannelSendPart ==
    /\ send_pc = "channel_text"
    /\ part_i <= Len(message_chunks)
    /\ \E outcome \in Outcomes :
          /\ sent' = Append(sent, Reply(sendMessage(args.chat_id, message_chunks[part_i], outcome),
                                        discussion_message_id))
          /\ IF Proceeds(outcome)
             THEN part_i' = part_i + 1 /\ UNCHANGED <<send_pc, send_ret>>
             ELSE send_pc' = "returned" /\ send_ret' = <<FALSE>> /\ UNCHANGED part_i
    /\ UNCHANGED <<send_unchanged, channel_vars, message_chunks>>

\* lines 263, 331
ChannelReturnTrue ==
    /\ send_pc = "channel_text"
    /\ part_i > Len(message_chunks)
    /\ send_ret' = <<TRUE>>
    /\ send_pc' = "returned"
    /\ UNCHANGED <<send_unchanged, channel_vars, message_chunks, part_i, sent>>

NextSend ==
    \/ SendRejectArgs
    \/ SendEnterDirect
    \/ DirectSkipUrl
    \/ DirectSendUrl
    \/ DirectOpenAudioRaises
    \/ DirectSendAudio
    \/ DirectSendPart
    \/ DirectReturnTrue
    \/ ChannelRejectNoUrl
    \/ SendEnterChannel
    \/ ChannelSendUrl
    \/ ChannelLookup
    \/ ChannelLookupGiveUp
    \/ ChannelOpenAudioRaises
    \/ ChannelSendAudio
    \/ ChannelSendPart
    \/ ChannelReturnTrue

SpecSend == InitSend /\ [][NextSend]_vars

(***************************************************************************)
(* Properties of send_telegram_with_audio                                  *)
(***************************************************************************)
\* the parts of each message at Telegram's limit
PartsOf == [m \in SendMessages |-> split_message(m, 4096)]

\* a request without its outcome
Request(r) == [method |-> r.method, chat_id |-> r.chat_id, text |-> r.text]

\* source URL message (if any), audio upload, text parts 1..k
DirectSequence ==
    (IF args.source_url # <<>>
     THEN << [method |-> "sendMessage", chat_id |-> args.chat_id,
              text |-> <<"Source: ">> \o args.source_url] >>
     ELSE <<>>)
    \o << [method |-> "sendAudio", chat_id |-> args.chat_id, text |-> <<>>] >>
    \o [i \in 1..Len(PartsOf[message]) |->
          [method |-> "sendMessage", chat_id |-> args.chat_id, text |-> PartsOf[message][i]]]

\* C20: without channel_id and with valid inputs, the requests issued are a
\* prefix of [source URL message, audio upload, text part 1, ..., part k]; a
\* request whose response is not ok is the last one and the function has
\* returned False; True is returned only after the whole sequence, all ok.
C20_DirectSequence ==
    (ValidArgs /\ args.channel_id = <<>>) =>
        /\ Len(sent) <= Len(DirectSequence)
        /\ \A i \in DOMAIN sent : Request(sent[i]) = DirectSequence[i]
        /\ \A i \in DOMAIN sent :
              sent[i].outcome # "ok" =>
                 (i = Len(sent) /\ send_pc = "returned" /\ send_ret = <<FALSE>>)
        /\ send_ret = <<TRUE>> =>
              /\ Len(sent) = Len(DirectSequence)
              /\ \A i \in DOMAIN sent : sent[i].outcome = "ok"
        /\ send_pc = "returned" => Len(send_ret) = 1

\* the second of three text parts got a response that is not ok
C20_Witness ==
    /\ send_pc = "returned"
    /\ send_ret = <<FALSE>>
    /\ args.source_url # <<>>
    /\ Len(message_chunks) = 3
    /\ Len(sent) = 4
    /\ sent[4].outcome = "not_ok"
    /\ sent[4].text = Repeat("b", 4096)

\* the forward of the channel post in the updates of lookup l, if it has one
ForwardIn(l) ==
    {i \in DOMAIN l.updates :
        /\ l.updates[i].chat_id = args.chat_id
        /\ l.updates[i].forward_from_message_id = channel_message_id}

\* lookup l found the forwarded message
Finds(l) == l.outcome = "ok" /\ ForwardIn(l) # {}

\* the lookup is over: found, or given up after the last attempt
LookupOver ==
    \/ \E i \in DOMAIN lookups : Finds(lookups[i])
    \/ Len(lookups) = max_attempts
    \/ send_pc = "returned"

ChannelMode == ValidArgs /\ args.channel_id # <<>> /\ args.source_url # <<>>

\* the requests sent to the discussion group: all but the post in the channel
GroupRequests == SubSeq(sent, 2, Len(sent))

\* the audio upload and every text part, with reply_to_message_id r (none: <<>>)
GroupSequence(r) ==
    << [method |-> "sendAudio", chat_id |-> args.chat_id, text |-> <<>>, reply_to |-> r] >>
    \o [i \in 1..Len(PartsOf[message]) |->
          [method |-> "sendMessage", chat_id |-> args.chat_id,
           text |-> PartsOf[message][i], reply_to |-> r]]

RequestTo(r) ==
    [method |-> r.method, chat_id |-> r.chat_id, text |-> r.text, reply_to |-> r.reply_to]

\* the requests to the group are the first of GroupSequence(r), and the function
\* stopped before the end of it only for the audio file or for a request of the
\* group that was not answered ok
SentToGroup(r) ==
    /\ Len(GroupRequests) <= Len(GroupSequence(r))
    /\ \A i \in DOMAIN GroupRequests : RequestTo(GroupRequests[i]) = GroupSequence(r)[i]
    /\ send_pc = "returned" =>
          \/ Len(GroupRequests) = Len(GroupSequence(r)) /\ send_ret = <<TRUE>>
          \/ GroupRequests # <<>> /\ GroupRequests[Len(GroupRequests)].outcome # "ok"
                /\ send_ret = <<FALSE>>
          \/ GroupRequests = <<>> /\ ~args.audio_readable /\ send_ret = <<FALSE>>

\* C21: in channel mode the lookup starts after the source URL is posted to the
\* channel and is attempted at most 3 times; the attempt that finds the
\* forwarded message is the last one; when no attempt finds it the audio and
\* every text part still go to the discussion group, without
\* reply_to_message_id, and the function returns False only for one of those
\* requests, never for the lookup; when it is found, the audio and every text
\* part carry the id found.
C21_LookupBestEffort ==
    ChannelMode =>
       /\ Len(lookups) <= 3
       /\ lookups # <<>> =>
             /\ sent # <<>>
             /\ sent[1].chat_id = args.channel_id
             /\ sent[1].outcome = "ok"
       /\ \A i \in DOMAIN lookups :
             /\ lookups[i].attempt = i
             /\ Finds(lookups[i]) => i = Len(lookups)
       /\ GroupRequests # <<>> => LookupOver
       /\ (lookups # <<>> /\ LookupOver) =>
             IF \E i \in DOMAIN lookups : Finds(lookups[i])
             THEN /\ Truthy(discussion_message_id)
                  /\ SentToGroup(discussion_message_id)
             ELSE SentToGroup(<<>>)

(***************************************************************************)
(* Two invocations of condense_content, interleaved                        *)
(* Everything condense_content assigns is a local of the invocation        *)
(* (lines 8-77); a switch to the other invocation puts the running         *)
(* invocation's locals aside and takes up the other's.                     *)
(***************************************************************************)
\* the inputs and responses of the two invocations
TwoChunkLists == { <<>>, << <<"p">> >>, << <<"p">>, <<"q">> >> }

TwoResponses ==
    { << PlainStr(opening_tag \o <<"B">>), PlainStr(closing_tag \o <<"\n">>),
         AIMessageChunk(<<>>) >>,
      << AIMessageChunk(opening_tag \o <<"A">> \o closing_tag), PlainStr(<<" ","x"," ">>),
         AIMessageChunk(opening_tag \o <<"C">> \o closing_tag) >>,
      << AIMessageChunk(<<"A">>), PlainStr(<<"B">>) >> }

TwoInputs ==
    /\ chunks \in TwoChunkLists
    /\ \A i \in DOMAIN calls : calls[i].script \in TwoResponses

\* the locals of the running invocation
Running ==
    [pc |-> pc, chunks |-> chunks, idx |-> idx, processed_chunks |-> processed_chunks,
     chunk_response_text |-> chunk_response_text,
     reduce_response_text |-> reduce_response_text, pending |-> pending,
     calls |-> calls, result |-> result, error |-> error]

\* a processed_chunks list that is one object for both invocations
ResumeSharedList(saved, running) ==
    [saved EXCEPT !.processed_chunks = running.processed_chunks]

\* line 10: processed_chunks = [] is a new list of this invocation, as is every
\* other name the function assigns; the invocation taken up finds its own
Resume(saved, running) == saved

InitTwo ==
    /\ BackupIdle
    /\ SendIdle
    /\ SplitIdle
    /\ pc = "idle"
    /\ chunks = <<>>
    /\ idx = 0
    /\ processed_chunks = <<>>
    /\ chunk_response_text = <<>>
    /\ reduce_response_text = <<>>
    /\ pending = <<>>
    /\ calls = <<>>
    /\ result = <<>>
    /\ error = <<>>
    /\ text = <<>>
    /\ ret = <<>>
    /\ current = 1
    /\ suspended = IdleFrame

\* the scheduler runs the other invocation
Switch ==
    /\ current \in {1, 2}
    /\ current' = 3 - current
    /\ suspended' = Running
    /\ LET f == Resume(suspended, Running)
       IN  /\ pc' = f.pc
           /\ chunks' = f.chunks
           /\ idx' = f.idx
           /\ processed_chunks' = f.processed_chunks
           /\ chunk_response_text' = f.chunk_response_text
           /\ reduce_response_text' = f.reduce_response_text
           /\ pending' = f.pending
           /\ calls' = f.calls
           /\ result' = f.result
           /\ error' = f.error
    /\ UNCHANGED <<text, ret, split_vars, send_vars, backup_vars>>

\* a step of the running invocation
NextTwo ==
    \/ Start /\ TwoInputs'
    \/ MapCall /\ TwoInputs'
    \/ MapStreamChunk
    \/ MapExtract
    \/ ReduceCall /\ TwoInputs'
    \/ ReduceStreamChunk
    \/ ReduceExtract
    \/ StreamRaise
    \/ Switch

SpecTwo == InitTwo /\ [][NextTwo]_vars

(***************************************************************************)
(* Independence of two invocations                                         *)
(***************************************************************************)
RECURSIVE SoloFrom(_, _, _, _)
\* what an invocation over the chunks cs comes to on its own when the model
\* answers as in log, from call i on with the drafts done; no outcome when the
\* log is not the calls that invocation makes
SoloFrom(cs, log, i, done) ==
    IF i > Len(log) \/ i > Len(cs) + 1
    THEN [result |-> <<>>, error |-> <<>>]
    ELSE LET e == Expected[log[i].script]
             prompt == IF i <= Len(cs) THEN map_input(cs[i])
                       ELSE reduce_input(Joined(done))
         IN  IF log[i].prompt # prompt
             THEN [result |-> <<>>, error |-> <<>>]
             ELSE IF log[i].state = "raised"
             THEN [result |-> <<>>, error |-> <<UpstreamError>>]
             ELSE IF i <= Len(cs)
             THEN IF e.success
                  THEN SoloFrom(cs, log, i + 1, Append(done, e.text))
                  ELSE [result |-> <<>>, error |-> <<MapError(i, Len(cs))>>]
             ELSE IF e.success
                  THEN [result |-> <<e.text>>, error |-> <<>>]
                  ELSE [result |-> <<>>, error |-> <<ReduceError>>]

Solo(cs, log) == SoloFrom(cs, log, 1, <<>>)

\* the invocation with locals f has only what its own chunks and its own
\* responses give it
OwnOnly(f) ==
    /\ Len(f.processed_chunks) <= Len(f.chunks)
    /\ \A i \in DOMAIN f.processed_chunks :
          /\ f.calls[i].prompt = map_input(f.chunks[i])
          /\ f.processed_chunks[i] = Expected[f.calls[i].script].text
    /\ f.pc \in {"done", "failed"} =>
          [result |-> f.result, error |-> f.error] = Solo(f.chunks, f.calls)

\* C15: two invocations interleaved in any way are independent. At every point
\* of every interleaving the processed chunks of each invocation are the texts
\* extracted from its own responses to its own chunks, and the string returned
\* or the error raised by each is what it returns or raises alone on the same
\* chunks and the same responses.
C15_Independent ==
    current \in {1, 2} => OwnOnly(Running) /\ OwnOnly(suspended)

\* the first invocation has returned while the second, over other chunks and
\* with another draft, is put aside in the middle of its reduce stream
C15_Witness ==
    /\ current = 1
    /\ pc = "done"
    /\ Len(chunks) = 2
    /\ processed_chunks = << <<"B">>, <<"C">> >>
    /\ suspended.pc = "reduce_stream"
    /\ suspended.pending # <<>>
    /\ suspended.processed_chunks = << <<"C">> >>

(***************************************************************************)
(* utils.create_backup_file and utils.parse_backup_file                    *)
(* The fixed texts of the file format are single characters of the model:  *)
(* the rule of 80 "=" and the three labels.                                *)
(***************************************************************************)
\* lines 84, 86: '=' * 80
rule == "={80}"

MinOf(S) == CHOOSE x \in S : \A y \in S : x <= y

\* \w of the pattern at line 69, among the characters of the model
WordChars == {"a", "x", "y", "_"}

RECURSIVE without_protocol(_)
\* line 68: re.sub(r'https?://', '', url)
without_protocol(s) ==
    IF s = <<>> THEN <<>>
    ELSE IF Head(s) = "http://" THEN without_protocol(Tail(s))
    ELSE <<Head(s)>> \o without_protocol(Tail(s))

\* lines 68-73
safe_name(u) ==
    LET n == without_protocol(u)
    IN  Slice([i \in DOMAIN n |-> IF n[i] \in WordChars \cup {"-"} THEN n[i] ELSE "_"], 0, 100)

\* lines 76-79: backup_dir / f"{safe_name}_{timestamp}.txt"
path_of(u, now) ==
    <<"backup_content/">> \o safe_name(u) \o <<"_", now[1], "_", now[2], ".txt">>

\* lines 82-88: what is written to the file
written(u, c, a, now) ==
    <<"Source URL:", " ">> \o u \o <<"\n">>
    \o <<"Backup Created:", " ", now[1], " ", now[2], "\n">>
    \o <<rule, "\n", "\n">>
    \o c
    \o <<"\n", "\n", rule, "\n">>
    \o <<"Audio File Path:", " ">> \o a \o <<"\n">>

RECURSIVE read(_)
\* lines 105-106: open(file_path, 'r') reads with universal newlines, "\r\n" and
\* "\r" come back as "\n"
read(s) ==
    IF s = <<>> THEN <<>>
    ELSE IF Head(s) = "\r"
         THEN IF Len(s) >= 2 /\ s[2] = "\n"
              THEN <<"\n">> \o read(Tail(Tail(s)))
              ELSE <<"\n">> \o read(Tail(s))
    ELSE <<Head(s)>> \o read(Tail(s))

\* $ of a MULTILINE pattern: the last index of the line that index i is in
LineEnd(s, i) ==
    LET nl == {j \in i..Len(s) : s[j] = "\n"}
    IN  IF nl = {} THEN Len(s) ELSE MinOf(nl) - 1

\* label\s*(.+)$ with the label at index i: \s* takes the most whitespace that
\* still leaves a character other than "\n" for (.+), which runs to the end of
\* its line; the group in a one-element sequence, <<>> when there is no match
GroupAt(s, i) ==
    LET p == i + 1
        ks == {k \in 0..(Len(s) - p) :
                  /\ \A j \in p..(p + k - 1) : s[j] \in Whitespace
                  /\ s[p + k] # "\n"}
    IN  IF ks = {} THEN <<>>
        ELSE << SubSeq(s, p + Max(ks), LineEnd(s, p + Max(ks))) >>

\* lines 109, 116, 120: re.search(r'^label\s*(.+)$', content, re.MULTILINE), the
\* first match from the left
search_line(s, label) ==
    LET hits == {i \in DOMAIN s :
                    /\ i = 1 \/ s[i - 1] = "\n"
                    /\ s[i] = label
                    /\ GroupAt(s, i) # <<>>}
    IN  IF hits = {} THEN <<>> ELSE GroupAt(s, MinOf(hits))

\* line 128: re.search(r'={80}\n\n(.*?)\n\n={80}', content, re.DOTALL): the
\* first rule followed by an empty line, then the shortest text up to an empty
\* line followed by a rule
search_content(s) ==
    LET closes(i) == {j \in (i + 3)..(Len(s) - 2) :
                         s[j] = "\n" /\ s[j + 1] = "\n" /\ s[j + 2] = rule}
        hits == {i \in 1..(Len(s) - 2) :
                    s[i] = rule /\ s[i + 1] = "\n" /\ s[i + 2] = "\n" /\ closes(i) # {}}
    IN  IF hits = {} THEN <<>>
        ELSE << SubSeq(s, MinOf(hits) + 3, MinOf(closes(MinOf(hits))) - 1) >>

\* lines 104-143: the record, or None as <<>>
parse_backup_file(file_path, stored) ==
    LET s == read(stored)
        url_match == search_line(s, "Source URL:")
        timestamp_match == search_line(s, "Backup Created:")
        audio_match == search_line(s, "Audio File Path:")
        content_match == search_content(s)
    IN  IF url_match = <<>> \/ audio_match = <<>> \/ content_match = <<>>
        THEN <<>>
        ELSE << [url |-> strip(url_match[1]),
                 content |-> strip(content_match[1]),
                 audio_file_path |-> strip(audio_match[1]),
                 timestamp |-> IF timestamp_match = <<>> THEN <<>>
                               ELSE strip(timestamp_match[1]),
                 backup_file |-> file_path] >>

MaxContentLen == 4

ContentChars == {"a", " ", "\n", "\r", rule, "Audio File Path:"}

Contents == SeqsUpTo(ContentChars, MaxContentLen)

Urls == { <<"http://", "x", "/", "y">>, <<"x">> }

AudioPaths == { <<"a", "/", "y">>, <<"y", " ", "a">> }

\* datetime.now(), as date and time of day
Clock == { <<"d1", "t1">>, <<"d1", "t2">> }

InitBackup ==
    /\ SendIdle
    /\ SplitIdle
    /\ OneRun
    /\ pc = "idle"
    /\ chunks = <<>>
    /\ idx = 0
    /\ processed_chunks = <<>>
    /\ chunk_response_text = <<>>
    /\ reduce_response_text = <<>>
    /\ pending = <<>>
    /\ calls = <<>>
    /\ result = <<>>
    /\ error = <<>>
    /\ text = <<>>
    /\ ret = <<>>
    /\ backup_pc = "called"
    /\ url \in Urls
    /\ content \in Contents
    /\ audio_file_path \in AudioPaths
    /\ backup_path = <<>>
    /\ file = <<>>
    /\ record = <<>>

backup_unchanged ==
    <<pipeline_vars, text, ret, split_vars, send_vars, two_vars, url, content, audio_file_path>>

\* lines 50-91
CreateBackupFile ==
    /\ backup_pc = "called"
    /\ \E now \in Clock :
          /\ backup_path' = path_of(url, now)
          /\ file' = written(url, content, audio_file_path, now)
    /\ backup_pc' = "created"
    /\ UNCHANGED <<backup_unchanged, record>>

\* lines 94-143, on the file create_backup_file wrote
ParseBackupFile ==
    /\ backup_pc = "created"
    /\ record' = parse_backup_file(backup_path, file)
    /\ backup_pc' = "parsed"
    /\ UNCHANGED <<backup_unchanged, backup_path, file>>

NextBackup ==
    \/ CreateBackupFile
    \/ ParseBackupFile

SpecBackup == InitBackup /\ [][NextBackup]_vars

(***************************************************************************)
(* Properties of the backup round trip                                     *)
(***************************************************************************)
\* C25: backup record round trip. parse_backup_file of the file written by
\* create_backup_file(url, content, audio_file_path) returns a record with that
\* url, that audio_file_path and content.strip(), whatever the content holds.
C25_RoundTrip ==
    backup_pc = "parsed" =>
       /\ record # <<>>
       /\ record[1].url = url
       /\ record[1].audio_file_path = audio_file_path
       /\ record[1].content = strip(content)

====
